---- MODULE Spec2Model ----
(***************************************************************************)
(* HubSpot OAuth integration (backend/integrations/hubspot.py) on top of   *)
(* the keyed cache of backend/redis_client.py.                             *)
(*                                                                         *)
(* The cache has two back ends, selected once at import (USE_REDIS):       *)
(*   - the in-memory fallback (_memory_storage / _memory_expiry), whose    *)
(*     operations never suspend, so a handler runs without interruption    *)
(*     from one real suspension point to the next;                         *)
(*   - a Redis server, where every command (SET, EXPIRE, GET, DEL) is one  *)
(*     atomic step and the handler is suspended between two commands.      *)
(* Handlers are asyncio coroutines on one event loop; several requests may *)
(* be in flight, each in its own slot.                                     *)
(***************************************************************************)
EXTENDS Integers, Sequences, FiniteSets, TLC

VARIABLES
    USE_REDIS,        \* redis_client.py: back end chosen at import
    memory_storage,   \* redis_client.py: _memory_storage (key -> text)
    memory_expiry,    \* redis_client.py: _memory_expiry  (key -> deadline)
    redis_db,         \* the Redis server's keys (key -> text)
    redis_ttl,        \* the Redis server's expiry deadlines (key -> deadline)
    now,              \* time.time() / the Redis server's clock, in seconds
    next_nonce,       \* how many nonces secrets.token_urlsafe has produced
    au,               \* the authorize_hubspot call in flight
    cb,               \* the oauth2callback_hubspot calls in flight
    rt,               \* the get_hubspot_credentials calls in flight
    sent,             \* outbound HTTP requests issued by the last step
    reply,            \* the response, when the last step finished a handler
    written_at,       \* history: key held by the cache -> time its value was written
    consumed_states,  \* history: state texts a callback deleted from the cache
    replaced_states,  \* history: state texts a later authorize_hubspot overwrote
    taken,            \* history: credentials keys whose present value a retrieval has read
    consumed,         \* history: credentials keys retrieved successfully, not rewritten since
    fetch,            \* the get_items_hubspot call: its position, requests and items
    last_set          \* history of direct store calls: key -> value and deadline of its
                      \* latest add_key_value_redis, until delete_key_redis

vars == << USE_REDIS, memory_storage, memory_expiry, redis_db, redis_ttl, now,
           next_nonce, au, cb, rt, sent, reply, written_at, consumed_states,
           replaced_states, taken, consumed, fetch, last_set >>

----------------------------------------------------------------------------
(* Bounds of the model *)

MaxNonce == 1        \* authorize_hubspot calls explored
MaxTicks == 2        \* clock advances explored
MaxRecords == 2      \* records in one endpoint's response
MaxAuthorize == 2    \* authorize_hubspot calls explored where the clock stands still
TickLen == 350       \* seconds per clock advance

(* Program constants *)

EXPIRE == 600        \* expire=600 of both add_key_value_redis calls

(* Requests in flight and the identifiers they carry *)

CbProcs == {"cb1", "cb2"}     \* concurrent callback requests
RtProcs == {"rt1", "rt2"}     \* concurrent credential retrievals

\* user_id / org_id are free-form strings of the request; "u:u" holds the
\* separator the key format uses.  Pairs are <<user_id, org_id>>.
Pairs == {<<"u", "u">>, <<"u", "u:u">>, <<"u:u", "u">>}

----------------------------------------------------------------------------
(* Python values.  An optional value (dict.get, query_params.get, a cache  *)
(* get) is <<>> for None and <<v>> for v.                                   *)

None == <<>>
Some(v) == <<v>>

\* f'{x}' of an optional string
Format(x) == IF x = None THEN "None" ELSE x[1]

\* truthiness of an optional string: None and '' are falsy
Truthy(x) == x # None /\ x[1] # ""

(* JSON values: an object is its set of <<name, value>> members. *)
JObj(members) == [k |-> "obj", f |-> members]
JNull == [k |-> "null", f |-> {}]
JList == [k |-> "list", f |-> {}]

\* bool(v) of a parsed JSON value: null, {} and [] are falsy
JTruthy(v) == v.k = "obj" /\ v.f # {}

\* v.get(name): None when the member is missing
JGet(v, name) ==
    LET m == {p \in v.f : p[1] = name}
    IN IF m = {} THEN None ELSE Some((CHOOSE p \in m : TRUE)[2])

(* Texts: a JSON document, or a string that is no JSON. *)
json_dumps(v) == [t |-> "json", v |-> v]
NotJson == [t |-> "raw", v |-> JNull]

\* json.loads of an optional text: the value, or the exception it raises
json_loads(x) ==
    IF x = None THEN [ok |-> FALSE, exc |-> "TypeError", v |-> JNull]
    ELSE IF x[1].t # "json" THEN [ok |-> FALSE, exc |-> "JSONDecodeError", v |-> JNull]
    ELSE [ok |-> TRUE, exc |-> "", v |-> x[1].v]

----------------------------------------------------------------------------
(* HTTP outcomes of a handler *)

HTTPException(status, detail) == [status |-> status, detail |-> detail]
Unhandled(exc) == [status |-> 500, detail |-> exc]
Running == [status |-> 0, detail |-> ""]
OK == [status |-> 200, detail |-> ""]

StateMismatchError == HTTPException(400, "State does not match.")
NoCredentialsError == HTTPException(400, "No credentials found.")
TokenExchangeFailed == Unhandled("httpx.RequestError")

----------------------------------------------------------------------------
(* dict operations *)

DictSet(d, key, v) == [x \in DOMAIN d \cup {key} |-> IF x = key THEN v ELSE d[x]]
DictDel(d, key) == [x \in DOMAIN d \ {key} |-> d[x]]
DictGet(d, key) == IF key \in DOMAIN d THEN Some(d[key]) ELSE None

EmptyDict == [x \in {} |-> 0]

----------------------------------------------------------------------------
(* redis_client.py *)

\* The cache as a record, so that an operation is a function of it.
Cache == [storage |-> memory_storage, expiry |-> memory_expiry,
          db |-> redis_db, ttl |-> redis_ttl]

\* A Redis key is there until its deadline is reached.
RedisAlive(c, key) ==
    /\ key \in DOMAIN c.db
    /\ key \in DOMAIN c.ttl => now < c.ttl[key]

\* redis_client.set(key, value): SET also discards the key's deadline
RedisSet(c, key, value) ==
    [c EXCEPT !.db = DictSet(c.db, key, value), !.ttl = DictDel(c.ttl, key)]

\* redis_client.expire(key, expire): no effect on a key that is not there
RedisExpire(c, key, expire) ==
    IF RedisAlive(c, key)
    THEN [c EXCEPT !.ttl = DictSet(c.ttl, key, now + expire)]
    ELSE c

\* the in-memory branch of add_key_value_redis
MemoryAdd(c, key, value, expire) ==
    [c EXCEPT !.storage = DictSet(c.storage, key, value),
              !.expiry = IF expire # 0 THEN DictSet(c.expiry, key, now + expire)
                         ELSE c.expiry]

\* get_value_redis: the value read and the cache it leaves
get_value_redis(c, key) ==
    IF USE_REDIS
    THEN [value |-> IF RedisAlive(c, key) THEN Some(c.db[key]) ELSE None,
          cache |-> c]
    ELSE IF key \in DOMAIN c.expiry /\ now > c.expiry[key]
         THEN [value |-> None,
               cache |-> [c EXCEPT !.storage = DictDel(c.storage, key),
                                   !.expiry = DictDel(c.expiry, key)]]
         ELSE [value |-> DictGet(c.storage, key), cache |-> c]

\* a delete that removes nothing
delete_key_redis_skipped(c, key) == c

\* delete_key_redis
delete_key_redis(c, key) ==
    IF USE_REDIS
    THEN [c EXCEPT !.db = DictDel(c.db, key), !.ttl = DictDel(c.ttl, key)]
    ELSE [c EXCEPT !.storage = DictDel(c.storage, key),
                   !.expiry = DictDel(c.expiry, key)]

\* a write that leaves a key alone when it already has a value
add_key_value_redis_if_absent(c, key, value, expire) ==
    IF USE_REDIS
    THEN (IF key \in DOMAIN c.db THEN c
          ELSE [c EXCEPT !.db = DictSet(c.db, key, value), !.ttl = DictDel(c.ttl, key)])
    ELSE (IF key \in DOMAIN c.storage THEN c
          ELSE [c EXCEPT !.storage = DictSet(c.storage, key, value),
                         !.expiry = IF expire # 0 THEN DictSet(c.expiry, key, now + expire)
                                    ELSE c.expiry])

\* the first command of add_key_value_redis: the whole call in memory,
\* redis_client.set under Redis (redis_client.expire follows as a second step)
add_key_value_redis(c, key, value, expire) ==
    IF USE_REDIS THEN RedisSet(c, key, value)
    ELSE MemoryAdd(c, key, value, expire)

SetCache(c) ==
    /\ memory_storage' = c.storage
    /\ memory_expiry' = c.expiry
    /\ redis_db' = c.db
    /\ redis_ttl' = c.ttl

\* what the back end in use holds under a key, expired or not
StoredIn(c, key) == IF USE_REDIS THEN DictGet(c.db, key) ELSE DictGet(c.storage, key)
Stored(key) == StoredIn(Cache, key)

----------------------------------------------------------------------------
(* hubspot.py: keys and payloads *)

StateKey(org_id, user_id) == "hubspot_state:" \o org_id \o ":" \o user_id
CredentialsKey(org_id, user_id) == "hubspot_credentials:" \o org_id \o ":" \o user_id

\* secrets.token_urlsafe(32): a value never produced before
Nonce(i) == "nonce" \o ToString(i)

\* state_data of authorize_hubspot
StateData(nonce, user_id, org_id) ==
    JObj({<<"state", nonce>>, <<"user_id", user_id>>, <<"org_id", org_id>>})

\* the URL authorize_hubspot returns: the fixed prefix and the state it embeds
AuthorizationUrl(encoded_state) == [url |-> "authorization_url", state |-> encoded_state]

\* line 50 without its comparison of the nonces
StateMatches_saved_only(saved_state, original_state) == saved_state # None

\* line 50: the callback goes on only when this holds
StateMatches(saved_state, original_state) ==
    /\ saved_state # None
    /\ original_state = JGet(json_loads(saved_state).v, "state")

\* the key the callback looks the state up under (lines 44-48)
CallbackStateKey(state_data) ==
    StateKey(Format(JGet(state_data, "org_id")), Format(JGet(state_data, "user_id")))

\* line 71 with the prefix of the state key
CallbackCredentialsKey_state_prefix(state_data) ==
    StateKey(Format(JGet(state_data, "org_id")), Format(JGet(state_data, "user_id")))

\* the key the callback writes the credentials under (line 71)
CallbackCredentialsKey(state_data) ==
    CredentialsKey(Format(JGet(state_data, "org_id")), Format(JGet(state_data, "user_id")))

\* what oauth2callback_hubspot has decided when it first suspends: the
\* outcome (Running: it goes on to the token exchange), the cache it
\* leaves and the keys it works on
Decided(outcome, cache, skey, ckey) ==
    [outcome |-> outcome, cache |-> cache, skey |-> skey, ckey |-> ckey]

\* lines 40-51: parse the state, look it up, compare
CallbackValidate(c, encoded_state) ==
    LET state_data == json_loads(encoded_state)
    IN IF ~state_data.ok THEN Decided(Unhandled(state_data.exc), c, "", "")
       ELSE IF state_data.v.k # "obj" THEN Decided(Unhandled("AttributeError"), c, "", "")
       ELSE LET original_state == JGet(state_data.v, "state")
                key == CallbackStateKey(state_data.v)
                saved_state == get_value_redis(c, key)
            IN IF ~StateMatches(saved_state.value, original_state)
               THEN Decided(StateMismatchError, saved_state.cache, key, "")
               ELSE Decided(Running, saved_state.cache, key,
                            CallbackCredentialsKey(state_data.v))

\* lines 40-51 without the check of `error` on lines 37-38
CallbackEntry_error_unchecked(c, error, encoded_state) ==
    CallbackValidate(c, encoded_state)

\* lines 37-51
CallbackEntry(c, error, encoded_state) ==
    IF Truthy(error) THEN Decided(HTTPException(400, error[1]), c, "", "")
    ELSE CallbackValidate(c, encoded_state)

\* get_hubspot_credentials up to its delete (lines 84-89): the outcome
\* (Running: it goes on to delete and return), the value and the cache it leaves
RetrieveEntry(c, user_id, org_id) ==
    LET key == CredentialsKey(org_id, user_id)
        credentials == get_value_redis(c, key)
        parsed == json_loads(credentials.value)
    IN IF credentials.value = None
       THEN [outcome |-> NoCredentialsError, cache |-> credentials.cache, ret |-> None]
       ELSE IF ~JTruthy(parsed.v)
       THEN [outcome |-> NoCredentialsError, cache |-> credentials.cache, ret |-> None]
       ELSE [outcome |-> Running, cache |-> credentials.cache, ret |-> Some(parsed.v)]

----------------------------------------------------------------------------
(* hubspot.py: get_items_hubspot *)

MissingTokenError == HTTPException(400, "No access token found in credentials.")

\* line 183: the exception of the try block, wrapped
FetchError(exc) == HTTPException(500, "Error fetching HubSpot data: " \o exc)

\* line 112 testing for None only
HasAccessToken_is_not_none(access_token) == access_token # None

\* line 112: `if not access_token` lets the call go on
HasAccessToken(access_token) == Truthy(access_token)

\* v.get(name, default)
JGetOr(v, name, default) == IF JGet(v, name) = None THEN default ELSE JGet(v, name)[1]

\* a JSON string where null may stand as well (the values of `properties`)
JStr(s) == [k |-> "str", s |-> s]

IntegrationItem(id, type, name, creation_time, last_modified_time, url) ==
    [id |-> id, type |-> type, name |-> name, creation_time |-> creation_time,
     last_modified_time |-> last_modified_time, url |-> url]

ItemUrl(response_json) == "https://app.hubspot.com/contacts/" \o Format(JGet(response_json, "id"))

\* the item a record was mapped to, or the exception the mapping raised
Mapped(item) == [exc |-> "", item |-> item]
MappingRaised(exc) == [exc |-> exc, item |-> <<>>]

\* lines 94-105 with the name parts joined without the ' ' of line 99
create_integration_item_metadata_object_unspaced(response_json, item_type) ==
    LET properties == JGetOr(response_json, "properties", JObj({}))
        firstname == JGetOr(properties, "firstname", JStr(""))
        lastname == JGetOr(properties, "lastname", JStr(""))
    IN IF properties.k # "obj" THEN MappingRaised("AttributeError")
       ELSE IF firstname.k # "str" \/ lastname.k # "str" THEN MappingRaised("TypeError")
       ELSE Mapped(IntegrationItem(JGet(response_json, "id"), item_type,
                                   JStr(firstname.s \o lastname.s),
                                   JGet(response_json, "createdAt"),
                                   JGet(response_json, "updatedAt"),
                                   ItemUrl(response_json)))

\* lines 94-105: .get on a null `properties` raises AttributeError, and
\* str + None raises TypeError
create_integration_item_metadata_object(response_json, item_type) ==
    LET properties == JGetOr(response_json, "properties", JObj({}))
        firstname == JGetOr(properties, "firstname", JStr(""))
        lastname == JGetOr(properties, "lastname", JStr(""))
    IN IF properties.k # "obj" THEN MappingRaised("AttributeError")
       ELSE IF firstname.k # "str" \/ lastname.k # "str" THEN MappingRaised("TypeError")
       ELSE Mapped(IntegrationItem(JGet(response_json, "id"), item_type,
                                   JStr(firstname.s \o " " \o lastname.s),
                                   JGet(response_json, "createdAt"),
                                   JGet(response_json, "updatedAt"),
                                   ItemUrl(response_json)))

\* lines 146-153 with the default name of line 173
company_item_deal_default(company) ==
    LET properties == JGetOr(company, "properties", JObj({}))
    IN IF properties.k # "obj" THEN MappingRaised("AttributeError")
       ELSE Mapped(IntegrationItem(JGet(company, "id"), "Company",
                                   JGetOr(properties, "name", JStr("Unnamed Deal")),
                                   JGet(company, "createdAt"), JGet(company, "updatedAt"),
                                   ItemUrl(company)))

\* lines 146-153
company_item(company) ==
    LET properties == JGetOr(company, "properties", JObj({}))
    IN IF properties.k # "obj" THEN MappingRaised("AttributeError")
       ELSE Mapped(IntegrationItem(JGet(company, "id"), "Company",
                                   JGetOr(properties, "name", JStr("Unnamed Company")),
                                   JGet(company, "createdAt"), JGet(company, "updatedAt"),
                                   ItemUrl(company)))

\* lines 170-177
deal_item(deal) ==
    LET properties == JGetOr(deal, "properties", JObj({}))
    IN IF properties.k # "obj" THEN MappingRaised("AttributeError")
       ELSE Mapped(IntegrationItem(JGet(deal, "id"), "Deal",
                                   JGetOr(properties, "dealname", JStr("Unnamed Deal")),
                                   JGet(deal, "createdAt"), JGet(deal, "updatedAt"),
                                   ItemUrl(deal)))

\* the item an endpoint's record becomes
ItemOf(endpoint, record) ==
    IF endpoint = "contacts" THEN create_integration_item_metadata_object(record, "Contact")
    ELSE IF endpoint = "companies" THEN company_item(record)
    ELSE deal_item(record)

\* the for loops inserting each item at the front instead of appending it
MapRecords_inserting_first(endpoint, results, items) ==
    LET raising == {i \in 1..Len(results) : ItemOf(endpoint, results[i]).exc # ""}
        first == CHOOSE i \in raising : \A j \in raising : i <= j
    IN IF raising # {} THEN [exc |-> ItemOf(endpoint, results[first]).exc, items |-> items]
       ELSE [exc |-> "",
             items |-> [i \in 1..Len(results) |->
                          ItemOf(endpoint, results[Len(results) + 1 - i]).item] \o items]

\* the for loops of lines 130-133, 145-154, 169-178: map and append the
\* records in turn, up to the first that raises
RECURSIVE MapRecords(_, _, _)
MapRecords(endpoint, results, items) ==
    IF results = <<>> THEN [exc |-> "", items |-> items]
    ELSE LET m == ItemOf(endpoint, Head(results))
         IN IF m.exc # "" THEN [exc |-> m.exc, items |-> items]
            ELSE MapRecords(endpoint, Tail(results), Append(items, m.item))

Endpoints == <<"contacts", "companies", "deals">>
EndpointUrl(endpoint) == "https://api.hubapi.com/crm/v3/objects/" \o endpoint

\* the position after an endpoint's request
NextPc(endpoint) ==
    IF endpoint = "contacts" THEN "companies"
    ELSE IF endpoint = "companies" THEN "deals"
    ELSE "done"

\* lines 128-133 (145-154, 168-178) with the status check left out
EndpointItems_status_unchecked(endpoint, response, items) ==
    IF response.raises # "" THEN [exc |-> response.raises, items |-> items]
    ELSE LET data == json_loads(Some(response.body))
         IN IF ~data.ok THEN [exc |-> data.exc, items |-> items]
            ELSE IF data.v.k # "obj" THEN [exc |-> "AttributeError", items |-> items]
            ELSE MapRecords(endpoint, JGetOr(data.v, "results", <<>>), items)

\* One endpoint's part of the try block (lines 119-133, 135-154, 159-178):
\* the GET, the status check, the decoding of the body and the appends.
\* The result is the exception raised, or the item list after it.
EndpointItems(endpoint, response, items) ==
    IF response.raises # "" THEN [exc |-> response.raises, items |-> items]
    ELSE IF response.status_code # 200 THEN [exc |-> "", items |-> items]
    ELSE LET data == json_loads(Some(response.body))
         IN IF ~data.ok THEN [exc |-> data.exc, items |-> items]
            ELSE IF data.v.k # "obj" THEN [exc |-> "AttributeError", items |-> items]
            ELSE MapRecords(endpoint, JGetOr(data.v, "results", <<>>), items)

----------------------------------------------------------------------------
(* Inputs *)

\* the `error` query parameter: absent, empty, or the provider's text
Errors == {None, Some(""), Some("access_denied")}

\* well-formed serialized states, for every nonce authorize may produce and
\* one it never produces
StateTexts ==
    {json_dumps(StateData(Nonce(i), pr[1], pr[2])) : i \in 0..MaxNonce, pr \in Pairs}

\* the `state` query parameter: absent, not JSON, JSON but no object, an
\* object without the three members, or a well-formed state
StateParams ==
    {None, Some(NotJson), Some(json_dumps(JList)), Some(json_dumps(JObj({})))}
        \cup {Some(s) : s \in StateTexts}

\* answers of the token endpoint: status and body
TokenResponses ==
    { [status |-> 200, body |-> json_dumps(JObj({<<"access_token", "tok">>}))],
      [status |-> 400, body |-> json_dumps(JObj({<<"status", "BAD_AUTH_CODE">>}))],
      [status |-> 200, body |-> json_dumps(JObj({}))],
      [status |-> 502, body |-> NotJson] }


\* the credentials text handed to get_items_hubspot
CredentialTexts ==
    { json_dumps(JObj({<<"access_token", "tok">>})),
      json_dumps(JObj({<<"access_token", "">>})),
      json_dumps(JObj({<<"status", "BAD_AUTH_CODE">>})),
      json_dumps(JObj({})),
      json_dumps(JList),
      NotJson }

\* records of the three endpoints: complete ones, ones without a name
\* part, without `properties`, and with null where a string is expected
Record(id, properties) ==
    JObj({<<"id", id>>, <<"properties", properties>>,
          <<"createdAt", "2024-01-01">>, <<"updatedAt", "2024-02-02">>})

Records(endpoint) ==
    IF endpoint = "contacts"
    THEN { Record("1", JObj({<<"firstname", JStr("Ada")>>, <<"lastname", JStr("Lovelace")>>})),
           Record("2", JObj({<<"firstname", JStr("Ada")>>})),
           JObj({<<"id", "3">>}),
           Record("4", JObj({<<"firstname", JStr("Ada")>>, <<"lastname", JNull>>})) }
    ELSE IF endpoint = "companies"
    THEN { Record("5", JObj({<<"name", JStr("Acme")>>})),
           Record("6", JObj({})),
           JObj({<<"id", "7">>}),
           Record("8", JObj({<<"name", JNull>>})) }
    ELSE { Record("9", JObj({<<"dealname", JStr("Big deal")>>})),
           Record("10", JNull) }

RecordLists(endpoint) == UNION {[1..n -> Records(endpoint)] : n \in 0..MaxRecords}

\* what requests.get does for an endpoint: it raises, or it returns a status
\* and a body
EndpointResponses(endpoint) ==
    { [raises |-> "ConnectionError", status_code |-> 0, body |-> NotJson],
      [raises |-> "", status_code |-> 200, body |-> NotJson],
      [raises |-> "", status_code |-> 200, body |-> json_dumps(JList)],
      [raises |-> "", status_code |-> 200, body |-> json_dumps(JObj({}))],
      [raises |-> "", status_code |-> 401, body |-> json_dumps(JObj({<<"message", "expired">>}))] }
    \cup { [raises |-> "", status_code |-> st, body |-> json_dumps(JObj({<<"results", l>>}))] :
             st \in {200, 500}, l \in RecordLists(endpoint) }

----------------------------------------------------------------------------
(* Responses *)

\* op: the handler that finished; key: the cache key it worked on; reuse:
\* whether a callback presented a state that had been consumed before;
\* replaced: whether it presented a state a later authorize had overwritten
NoReply == [op |-> "", key |-> "", reuse |-> FALSE, replaced |-> FALSE,
            outcome |-> Running, ret |-> None]
Reply(op, key, outcome, ret) ==
    [op |-> op, key |-> key, reuse |-> FALSE, replaced |-> FALSE,
     outcome |-> outcome, ret |-> ret]

----------------------------------------------------------------------------
(* Initial state *)

IdleAu == [pc |-> "idle", user_id |-> "", org_id |-> "", ret |-> None]
IdleCb == [pc |-> "idle", state |-> None, skey |-> "", ckey |-> "",
           del |-> "none"]
IdleRt == [pc |-> "idle", user_id |-> "", org_id |-> "", ret |-> None]
IdleFetch == [pc |-> "idle", access_token |-> None, requests |-> <<>>,
              statuses |-> <<>>, items |-> <<>>, outcome |-> Running, ret |-> None]

Init ==
    /\ USE_REDIS \in BOOLEAN
    /\ memory_storage = EmptyDict
    /\ memory_expiry = EmptyDict
    /\ redis_db = EmptyDict
    /\ redis_ttl = EmptyDict
    /\ now = 0
    /\ next_nonce = 1
    /\ au = IdleAu
    /\ cb = [p \in CbProcs |-> IdleCb]
    /\ rt = [r \in RtProcs |-> IdleRt]
    /\ sent = <<>>
    /\ reply = NoReply
    /\ written_at = EmptyDict
    /\ consumed_states = {}
    /\ replaced_states = {}
    /\ taken = {}
    /\ consumed = {}
    /\ last_set = EmptyDict
    /\ fetch = IdleFetch

\* the keys a cache holds, expired or not
Held(c) == IF USE_REDIS THEN DOMAIN c.db ELSE DOMAIN c.storage

\* the history kept for the keys a cache holds
SetHistory(c, written, read) ==
    /\ written_at' = [k \in DOMAIN written \cap Held(c) |-> written[k]]
    /\ taken' = read \cap Held(c)

----------------------------------------------------------------------------
(* authorize_hubspot *)

\* lines 25-31 (and 33 in memory): build the state and write it
Authorize(user_id, org_id) ==
    /\ au.pc = "idle"
    /\ LET encoded_state == json_dumps(StateData(Nonce(next_nonce), user_id, org_id))
           key == StateKey(org_id, user_id)
           url == Some(AuthorizationUrl(encoded_state))
           c == add_key_value_redis(Cache, key, encoded_state, EXPIRE)
       IN /\ SetCache(c)
          /\ SetHistory(c, DictSet(written_at, key, now), taken)
          /\ au' = IF USE_REDIS
                   THEN [pc |-> "expire", user_id |-> user_id, org_id |-> org_id, ret |-> url]
                   ELSE IdleAu
          /\ reply' = IF USE_REDIS THEN NoReply ELSE Reply("authorize", key, OK, url)
    /\ replaced_states' = replaced_states \cup
                            (IF Stored(StateKey(org_id, user_id)) = None THEN {}
                             ELSE {Stored(StateKey(org_id, user_id))[1]})
    /\ next_nonce' = next_nonce + 1
    /\ sent' = <<>>
    /\ UNCHANGED << last_set, fetch, USE_REDIS, now, cb, rt, consumed_states, consumed >>

\* redis_client.py line 26 for the state key, then line 33
AuthorizeExpire ==
    /\ au.pc = "expire"
    /\ SetCache(RedisExpire(Cache, StateKey(au.org_id, au.user_id), EXPIRE))
    /\ au' = IdleAu
    /\ sent' = <<>>
    /\ reply' = Reply("authorize", StateKey(au.org_id, au.user_id), OK, au.ret)
    /\ UNCHANGED << replaced_states, last_set, fetch, USE_REDIS, now, next_nonce, cb, rt, written_at,
                    consumed_states, taken, consumed >>

----------------------------------------------------------------------------
(* oauth2callback_hubspot *)

\* lines 37-51, and the start of the gather of lines 53-69: the token POST
\* is issued and the delete of the state entry is scheduled
CallbackStart(p, error, encoded_state) ==
    /\ cb[p].pc = "idle"
    /\ LET e == CallbackEntry(Cache, error, encoded_state)
           goes_on == e.outcome = Running
       IN /\ SetCache(e.cache)
          /\ SetHistory(e.cache, written_at, taken)
          /\ cb' = IF goes_on
                   THEN [cb EXCEPT ![p] = [pc |-> "gather", state |-> encoded_state,
                                           skey |-> e.skey, ckey |-> e.ckey,
                                           del |-> "pending"]]
                   ELSE cb
          /\ sent' = IF goes_on THEN <<"POST https://api.hubapi.com/oauth/v1/token">> ELSE <<>>
          /\ reply' = IF goes_on THEN NoReply
                      ELSE [Reply("callback", e.skey, e.outcome, None) EXCEPT
                               !.reuse = encoded_state # None
                                         /\ encoded_state[1] \in consumed_states,
                               !.replaced = encoded_state # None
                                            /\ encoded_state[1] \in replaced_states]
    /\ UNCHANGED << replaced_states, last_set, fetch, USE_REDIS, now, next_nonce, au, rt, consumed_states, consumed >>

\* line 68: the delete task of the gather.  It is not cancelled when the POST
\* raises, so it also runs after the handler has failed.
CallbackDelete(p) ==
    /\ cb[p].del = "pending"
    /\ LET c == delete_key_redis(Cache, cb[p].skey)
       IN /\ SetCache(c)
          /\ SetHistory(c, written_at, taken)
    /\ consumed_states' = consumed_states \cup
                            (IF Stored(cb[p].skey) = None THEN {} ELSE {Stored(cb[p].skey)[1]})
    /\ cb' = IF cb[p].pc = "failed" THEN [cb EXCEPT ![p] = IdleCb]
             ELSE [cb EXCEPT ![p].del = "done"]
    /\ sent' = <<>>
    /\ reply' = NoReply
    /\ UNCHANGED << replaced_states, last_set, fetch, USE_REDIS, now, next_nonce, au, rt, consumed >>

\* Whether the POST's failure can be delivered now.  In memory the delete
\* task finishes in its first step, which the event loop runs before it
\* delivers any result of the POST; under Redis the DEL may still be in
\* flight, and gather raises without waiting for it.
FailureDeliverable(use_redis, del) == use_redis \/ del = "done"

\* lines 54-69 when client.post raises: gather re-raises at once
CallbackPostFails(p) ==
    /\ cb[p].pc = "gather"
    /\ FailureDeliverable(USE_REDIS, cb[p].del)
    /\ cb' = IF cb[p].del = "pending" THEN [cb EXCEPT ![p].pc = "failed"]
             ELSE [cb EXCEPT ![p] = IdleCb]
    /\ sent' = <<>>
    /\ reply' = Reply("callback", cb[p].skey, TokenExchangeFailed, None)
    /\ UNCHANGED << replaced_states, last_set, fetch, USE_REDIS, memory_storage, memory_expiry, redis_db, redis_ttl, now,
                    next_nonce, au, rt, written_at, consumed_states, taken, consumed >>

\* lines 54-71 with a status check before line 71: an answer other than 200
\* raises and nothing is written
CallbackPostReturns_status_checked(p, response) ==
    /\ cb[p].pc = "gather"
    /\ cb[p].del = "done"
    /\ sent' = <<>>
    /\ LET body == json_loads(Some(response.body))
           key == cb[p].ckey
           c == add_key_value_redis(Cache, key, json_dumps(body.v), EXPIRE)
       IN IF response.status # 200 \/ ~body.ok
          THEN /\ cb' = [cb EXCEPT ![p] = IdleCb]
               /\ reply' = Reply("callback", cb[p].skey, Unhandled("HTTPStatusError"), None)
               /\ UNCHANGED << memory_storage, memory_expiry, redis_db, redis_ttl,
                               written_at, taken, consumed >>
          ELSE /\ SetCache(c)
               /\ SetHistory(c, DictSet(written_at, key, now), taken \ {key})
               /\ consumed' = consumed \ {key}
               /\ cb' = IF USE_REDIS THEN [cb EXCEPT ![p].pc = "expire"]
                        ELSE [cb EXCEPT ![p] = IdleCb]
               /\ reply' = IF USE_REDIS THEN NoReply ELSE Reply("callback", key, OK, None)
    /\ UNCHANGED << replaced_states, last_set, fetch, USE_REDIS, now, next_nonce, au, rt, consumed_states >>

\* lines 54-71 when the POST is answered: gather returns once the delete is
\* done too, then the body is parsed and written
CallbackPostReturns(p, response) ==
    /\ cb[p].pc = "gather"
    /\ cb[p].del = "done"
    /\ sent' = <<>>
    /\ LET body == json_loads(Some(response.body))
           key == cb[p].ckey
           c == add_key_value_redis(Cache, key, json_dumps(body.v), EXPIRE)
       IN IF ~body.ok
          THEN /\ cb' = [cb EXCEPT ![p] = IdleCb]
               /\ reply' = Reply("callback", cb[p].skey, Unhandled(body.exc), None)
               /\ UNCHANGED << memory_storage, memory_expiry, redis_db, redis_ttl,
                               written_at, taken, consumed >>
          ELSE /\ SetCache(c)
               /\ SetHistory(c, DictSet(written_at, key, now), taken \ {key})
               /\ consumed' = consumed \ {key}
               /\ cb' = IF USE_REDIS THEN [cb EXCEPT ![p].pc = "expire"]
                        ELSE [cb EXCEPT ![p] = IdleCb]
               /\ reply' = IF USE_REDIS THEN NoReply ELSE Reply("callback", key, OK, None)
    /\ UNCHANGED << replaced_states, last_set, fetch, USE_REDIS, now, next_nonce, au, rt, consumed_states >>

\* redis_client.py line 26 for the credentials key, then lines 73-80
CallbackExpire(p) ==
    /\ cb[p].pc = "expire"
    /\ SetCache(RedisExpire(Cache, cb[p].ckey, EXPIRE))
    /\ cb' = [cb EXCEPT ![p] = IdleCb]
    /\ sent' = <<>>
    /\ reply' = Reply("callback", cb[p].ckey, OK, None)
    /\ UNCHANGED << replaced_states, last_set, fetch, USE_REDIS, now, next_nonce, au, rt, written_at,
                    consumed_states, taken, consumed >>

----------------------------------------------------------------------------
(* get_hubspot_credentials *)

\* lines 84-89, and in memory lines 90-92 as well
RetrieveStart(r, user_id, org_id) ==
    /\ rt[r].pc = "idle"
    /\ LET key == CredentialsKey(org_id, user_id)
           e == RetrieveEntry(Cache, user_id, org_id)
           c == delete_key_redis(e.cache, key)
       IN IF e.outcome # Running
          THEN /\ SetCache(e.cache)
               /\ SetHistory(e.cache, written_at, taken)
               /\ reply' = Reply("retrieve", key, e.outcome, None)
               /\ UNCHANGED << rt, consumed >>
          ELSE IF USE_REDIS
          THEN /\ SetCache(e.cache)
               /\ SetHistory(e.cache, written_at, taken \cup {key})
               /\ rt' = [rt EXCEPT ![r] = [pc |-> "delete", user_id |-> user_id,
                                           org_id |-> org_id, ret |-> e.ret]]
               /\ reply' = NoReply
               /\ UNCHANGED consumed
          ELSE /\ SetCache(c)
               /\ SetHistory(c, written_at, taken \cup {key})
               /\ reply' = Reply("retrieve", key, OK, e.ret)
               /\ consumed' = consumed \cup {key}
               /\ UNCHANGED rt
    /\ sent' = <<>>
    /\ UNCHANGED << replaced_states, last_set, fetch, USE_REDIS, now, next_nonce, au, cb, consumed_states >>

\* lines 90-92 under Redis
RetrieveDelete(r) ==
    /\ rt[r].pc = "delete"
    /\ LET key == CredentialsKey(rt[r].org_id, rt[r].user_id)
           c == delete_key_redis(Cache, key)
       IN /\ SetCache(c)
          /\ SetHistory(c, written_at, taken)
          /\ consumed' = consumed \cup {key}
    /\ rt' = [rt EXCEPT ![r] = IdleRt]
    /\ sent' = <<>>
    /\ reply' = Reply("retrieve", CredentialsKey(rt[r].org_id, rt[r].user_id), OK, rt[r].ret)
    /\ UNCHANGED << replaced_states, last_set, fetch, USE_REDIS, now, next_nonce, au, cb, consumed_states >>

----------------------------------------------------------------------------
(* get_items_hubspot *)

OAuthVars == << replaced_states, last_set, USE_REDIS, memory_storage, memory_expiry, redis_db, redis_ttl, now,
                next_nonce, au, cb, rt, sent, reply, written_at, consumed_states,
                taken, consumed >>

\* a failure that hands back the items collected so far
FetchFailed_items_kept(f, outcome) ==
    [f EXCEPT !.pc = "done", !.outcome = outcome, !.ret = Some(f.items)]

\* a call that ended without a result
FetchFailed(f, outcome) == [f EXCEPT !.pc = "done", !.outcome = outcome, !.ret = None]

\* lines 109-116: decode the credentials and check the token
FetchStart(credentials) ==
    /\ fetch.pc \in {"idle", "done"}
    /\ LET decoded == json_loads(Some(credentials))
           access_token == JGet(decoded.v, "access_token")
       IN fetch' =
            IF ~decoded.ok THEN FetchFailed(IdleFetch, Unhandled(decoded.exc))
            ELSE IF decoded.v.k # "obj" THEN FetchFailed(IdleFetch, Unhandled("AttributeError"))
            ELSE IF ~HasAccessToken(access_token)
            THEN FetchFailed([IdleFetch EXCEPT !.access_token = access_token],
                             MissingTokenError)
            ELSE [IdleFetch EXCEPT !.pc = "contacts", !.access_token = access_token]
    /\ UNCHANGED OAuthVars

\* lines 119-186 for one endpoint: its request and what follows it up to the
\* next request, the except clause or the return
FetchEndpoint(endpoint, response) ==
    /\ fetch.pc = endpoint
    /\ LET r == EndpointItems(endpoint, response, fetch.items)
           f == [fetch EXCEPT !.requests = Append(fetch.requests, EndpointUrl(endpoint)),
                              !.statuses = Append(fetch.statuses, response.status_code)]
       IN fetch' =
            IF r.exc # "" THEN FetchFailed(f, FetchError(r.exc))
            ELSE IF NextPc(endpoint) = "done"
            THEN [f EXCEPT !.pc = "done", !.items = r.items, !.outcome = OK,
                           !.ret = Some(r.items)]
            ELSE [f EXCEPT !.pc = NextPc(endpoint), !.items = r.items]
    /\ UNCHANGED OAuthVars

FetchContacts == \E response \in EndpointResponses("contacts") : FetchEndpoint("contacts", response)
FetchCompanies == \E response \in EndpointResponses("companies") : FetchEndpoint("companies", response)
FetchDeals == \E response \in EndpointResponses("deals") : FetchEndpoint("deals", response)

----------------------------------------------------------------------------
(* The clock *)

\* the Redis server drops a key when its deadline is reached
RedisPurge(c, t) ==
    LET live == {k \in DOMAIN c.db : k \in DOMAIN c.ttl => t < c.ttl[k]}
    IN [c EXCEPT !.db = [k \in live |-> c.db[k]],
                 !.ttl = [k \in DOMAIN c.ttl \cap live |-> c.ttl[k]]]

Tick ==
    /\ now + TickLen <= MaxTicks * TickLen
    /\ now' = now + TickLen
    /\ LET c == RedisPurge(Cache, now + TickLen)
       IN /\ SetCache(c)
          /\ SetHistory(c, written_at, taken)
    /\ sent' = <<>>
    /\ reply' = NoReply
    /\ UNCHANGED << replaced_states, last_set, fetch, USE_REDIS, next_nonce, au, cb, rt, consumed_states, consumed >>

----------------------------------------------------------------------------

\* One callback and one retrieval in flight at a time, next to authorize.
Next ==
    \/ \E pr \in Pairs : next_nonce <= MaxNonce /\ Authorize(pr[1], pr[2])
    \/ AuthorizeExpire
    \/ \E error \in Errors, encoded_state \in StateParams :
           CallbackStart("cb1", error, encoded_state)
    \/ CallbackDelete("cb1")
    \/ CallbackPostFails("cb1")
    \/ \E response \in TokenResponses : CallbackPostReturns("cb1", response)
    \/ CallbackExpire("cb1")
    \/ \E pr \in Pairs : RetrieveStart("rt1", pr[1], pr[2])
    \/ RetrieveDelete("rt1")
    \/ Tick

Spec == Init /\ [][Next]_vars

\* Concurrent callbacks and concurrent retrievals of one authorization, at
\* one instant of the clock.
NextConcurrent ==
    \/ \E pr \in Pairs : next_nonce <= 1 /\ Authorize(pr[1], pr[2])
    \/ AuthorizeExpire
    \/ \E p \in CbProcs, error \in Errors, encoded_state \in StateParams :
           CallbackStart(p, error, encoded_state)
    \/ \E p \in CbProcs : CallbackDelete(p)
    \/ \E p \in CbProcs : CallbackPostFails(p)
    \/ \E p \in CbProcs, response \in TokenResponses : CallbackPostReturns(p, response)
    \/ \E p \in CbProcs : CallbackExpire(p)
    \/ \E r \in RtProcs, pr \in Pairs : RetrieveStart(r, pr[1], pr[2])
    \/ \E r \in RtProcs : RetrieveDelete(r)

SpecConcurrent == Init /\ [][NextConcurrent]_vars

\* Repeated authorizations, at one instant of the clock: a second
\* authorize_hubspot for the same or for another pair, and callbacks that
\* may present the state of either.
RepeatedStateParams ==
    StateParams \cup {Some(json_dumps(StateData(Nonce(i), pr[1], pr[2]))) :
                         i \in 0..MaxAuthorize, pr \in Pairs}

NextRepeated ==
    \/ \E pr \in Pairs : next_nonce <= MaxAuthorize /\ Authorize(pr[1], pr[2])
    \/ AuthorizeExpire
    \/ \E error \in Errors, encoded_state \in RepeatedStateParams :
           CallbackStart("cb1", error, encoded_state)
    \/ CallbackDelete("cb1")
    \/ CallbackPostFails("cb1")
    \/ \E response \in TokenResponses : CallbackPostReturns("cb1", response)
    \/ CallbackExpire("cb1")
    \/ \E pr \in Pairs : RetrieveStart("rt1", pr[1], pr[2])
    \/ RetrieveDelete("rt1")

SpecRepeated == Init /\ [][NextRepeated]_vars

\* The in-memory store on its own: its three operations called directly, with
\* and without `expire`, and the clock.
StoreKeys == {StateKey("u", "u"), CredentialsKey("u", "u")}
StoreValues == {json_dumps(JObj({})), json_dumps(JList)}
\* 0 stands for an omitted `expire` (None and 0 alike fail `if expire:`)
Expires == {0, TickLen, EXPIRE}

StoreInit == Init /\ ~USE_REDIS

\* redis_client.py lines 28-30
StoreAdd(key, value, expire) ==
    /\ SetCache(add_key_value_redis(Cache, key, value, expire))
    /\ last_set' = DictSet(last_set, key,
                           [value |-> value,
                            deadline |-> IF expire = 0 THEN None ELSE Some(now + expire)])
    /\ reply' = Reply("add", key, OK, None)
    /\ UNCHANGED << USE_REDIS, now, next_nonce, au, cb, rt, sent, written_at,
                    consumed_states, replaced_states, taken, consumed, fetch >>

\* redis_client.py lines 36-41
StoreGet(key) ==
    /\ LET got == get_value_redis(Cache, key)
       IN /\ SetCache(got.cache)
          /\ reply' = Reply("get", key, OK, got.value)
    /\ UNCHANGED << USE_REDIS, now, next_nonce, au, cb, rt, sent, written_at,
                    consumed_states, replaced_states, taken, consumed, fetch, last_set >>

\* redis_client.py lines 47-50
StoreDelete(key) ==
    /\ SetCache(delete_key_redis(Cache, key))
    /\ last_set' = DictDel(last_set, key)
    /\ reply' = Reply("delete", key, OK, None)
    /\ UNCHANGED << USE_REDIS, now, next_nonce, au, cb, rt, sent, written_at,
                    consumed_states, replaced_states, taken, consumed, fetch >>

StoreNext ==
    \/ \E key \in StoreKeys, value \in StoreValues, expire \in Expires :
           StoreAdd(key, value, expire)
    \/ \E key \in StoreKeys : StoreGet(key)
    \/ \E key \in StoreKeys : StoreDelete(key)
    \/ Tick

StoreSpec == StoreInit /\ [][StoreNext]_vars

\* get_items_hubspot on its own: it shares no state with the other handlers.
FetchNext ==
    \/ \E credentials \in CredentialTexts : FetchStart(credentials)
    \/ FetchContacts
    \/ FetchCompanies
    \/ FetchDeals

FetchSpec == Init /\ [][FetchNext]_vars

----------------------------------------------------------------------------
(* Vocabulary of the properties *)

StateText(i, pr) == json_dumps(StateData(Nonce(i), pr[1], pr[2]))
NonceRange == 0..MaxNonce

\* the error parameter does not stop the callback
NoError(error) == error = None \/ error = Some("")

\* the `state` values that are no serialized AuthorizationState
MalformedParams == StateParams \ {Some(s) : s \in StateTexts}

\* seconds since the value under a key was written
Age(key) == now - written_at[key]

CacheUnchanged == UNCHANGED << memory_storage, memory_expiry, redis_db, redis_ttl >>

\* a retrieval step that got the credentials: it returns them in this step
\* (memory) or goes on to its delete (Redis)
Retrieved(r, key, value) ==
    \/ reply' = Reply("retrieve", key, OK, Some(value))
    \/ rt'[r].pc = "delete" /\ rt'[r].ret = Some(value)

----------------------------------------------------------------------------
(* C1: after a completed callback, the first retrieval succeeds and the   *)
(* second fails.                                                          *)

\* C1 as stated: a retrieveCredentials made right after a handleCallback for
\* the pair completed succeeds and returns the stored credentials.
C1_FirstRetrievalSucceeds ==
    [][\A pr \in Pairs :
          LET key == CredentialsKey(pr[2], pr[1])
          IN (/\ reply = Reply("callback", key, OK, None)
              /\ Stored(key) # None
              /\ RetrieveStart("rt1", pr[1], pr[2]))
             => Retrieved("rt1", key, Stored(key)[1].v)]_vars

\* C1 amended: a retrieveCredentials that finds the credentials entry in the
\* cache less than 600 seconds after it was written, with a non-empty token
\* payload, succeeds and returns the stored credentials; a retrieveCredentials
\* made after one has succeeded, with no credentials write in between, fails
\* with NoCredentialsError.
C1_SingleUse ==
    [][\A pr \in Pairs :
          LET key == CredentialsKey(pr[2], pr[1])
          IN RetrieveStart("rt1", pr[1], pr[2]) =>
               /\ (/\ Stored(key) # None
                   /\ Age(key) < EXPIRE
                   /\ JTruthy(Stored(key)[1].v))
                  => Retrieved("rt1", key, Stored(key)[1].v)
               /\ key \in consumed
                  => reply' = Reply("retrieve", key, NoCredentialsError, None)]_vars

\* a second retrieval has failed after a first one succeeded
C1_Witness ==
    /\ reply.op = "retrieve"
    /\ reply.outcome = NoCredentialsError
    /\ reply.key \in consumed

----------------------------------------------------------------------------
(* C2: concurrent retrievals *)

\* C2: a credentials entry written by one handleCallback is returned to at
\* most one caller: a retrieval never gets a value that another retrieval
\* has already read.
C2_NeverRetrievableTwice ==
    [][\A r \in RtProcs, pr \in Pairs :
          LET key == CredentialsKey(pr[2], pr[1])
          IN (RetrieveStart(r, pr[1], pr[2]) /\ key \in taken)
             => reply' = Reply("retrieve", key, NoCredentialsError, None)]_vars

----------------------------------------------------------------------------
(* C3: state validation *)

\* C3: a callback reaches the token exchange only if the cache holds an
\* entry under state:{org_id}:{user_id} of the presented state whose nonce
\* equals the presented nonce; when the entry is absent or the nonces differ
\* it fails with StateMismatchError and issues no token request.
C3_StateValidated ==
    [][\A error \in Errors, encoded_state \in StateParams :
          CallbackStart("cb1", error, encoded_state) =>
            /\ sent' # <<>> <=> cb'["cb1"].pc = "gather"
            /\ cb'["cb1"].pc = "gather" =>
                 \E i \in NonceRange, pr \in Pairs :
                    /\ encoded_state = Some(StateText(i, pr))
                    /\ Stored(StateKey(pr[2], pr[1])) # None
                    /\ JGet(Stored(StateKey(pr[2], pr[1]))[1].v, "state") = Some(Nonce(i))
            /\ \A i \in NonceRange, pr \in Pairs :
                 (/\ NoError(error)
                  /\ encoded_state = Some(StateText(i, pr))
                  /\ \/ Stored(StateKey(pr[2], pr[1])) = None
                     \/ JGet(Stored(StateKey(pr[2], pr[1]))[1].v, "state") # Some(Nonce(i)))
                 => /\ reply'.outcome = StateMismatchError
                    /\ sent' = <<>>
                    /\ cb' = cb]_vars

\* a callback has failed with StateMismatchError although the cache holds an
\* entry under the key of the state it presented
C3_Witness ==
    /\ reply.op = "callback"
    /\ reply.outcome = StateMismatchError
    /\ Stored(reply.key) # None
    /\ Age(reply.key) < EXPIRE

----------------------------------------------------------------------------
(* C4: authorize, then the callback with the returned state *)

\* C4 as stated: a callback that carries the state authorize stored, and so
\* passes validation, succeeds.
C4_CallbackWithReturnedStateSucceeds ==
    [][(cb["cb1"].pc = "gather" /\ cb'["cb1"].pc # "gather")
       => \/ reply'.outcome = OK
          \/ cb'["cb1"].pc = "expire"]_vars

\* C4 amended: a callback carrying exactly the state authorize returned,
\* while that entry is in the cache and less than 600 seconds old, passes
\* validation and issues the token request; when the token endpoint answers
\* with a JSON body, that body is stored under credentials:{org_id}:{user_id};
\* a callback that reuses a state whose entry was consumed fails with
\* StateMismatchError.
C4_AuthorizeThenCallback ==
    [][\A i \in NonceRange, pr \in Pairs :
          LET encoded_state == StateText(i, pr)
              skey == StateKey(pr[2], pr[1])
              ckey == CredentialsKey(pr[2], pr[1])
          IN /\ \A error \in Errors :
                  (/\ CallbackStart("cb1", error, Some(encoded_state))
                   /\ NoError(error))
                  => /\ (Stored(skey) = Some(encoded_state) /\ Age(skey) < EXPIRE)
                        => cb'["cb1"].pc = "gather" /\ sent' # <<>>
                     /\ encoded_state \in consumed_states
                        => reply'.outcome = StateMismatchError /\ cb' = cb
             /\ \A response \in TokenResponses :
                  (/\ CallbackPostReturns("cb1", response)
                   /\ cb["cb1"].state = Some(encoded_state)
                   /\ response.body.t = "json")
                  => /\ StoredIn(Cache', ckey) = Some(response.body)
                     /\ reply'.outcome = OK \/ cb'["cb1"].pc = "expire"]_vars

\* a callback reused a consumed state and failed with StateMismatchError
C4_Witness ==
    /\ reply.op = "callback"
    /\ reply.reuse
    /\ reply.outcome = StateMismatchError

----------------------------------------------------------------------------
(* C5: concurrent callbacks *)

\* C5: of the callbacks that present the same state, at most one passes
\* validation and performs a token exchange.
C5_AtMostOneCallbackPasses ==
    \A p \in CbProcs, q \in CbProcs :
        (p # q /\ cb[p].pc # "idle" /\ cb[q].pc # "idle") => cb[p].state # cb[q].state

----------------------------------------------------------------------------
(* C6: failure of the token exchange *)

\* C6: when the token POST raises, the state entry is already deleted when
\* the failure reaches the caller, and no credentials entry is written.
C6_StateDeletedWhenExchangeFails ==
    [][CallbackPostFails("cb1")
       => /\ Stored(cb["cb1"].skey) # cb["cb1"].state
          /\ CacheUnchanged]_vars

----------------------------------------------------------------------------
(* C7: the provider's error *)

\* C7: a callback with a non-empty `error` parameter fails with the
\* provider's error text, issues no token request and leaves the cache as
\* it was.
C7_ProviderError ==
    [][\A error \in Errors, encoded_state \in StateParams :
          (CallbackStart("cb1", error, encoded_state) /\ error # None /\ error # Some(""))
          => /\ reply'.outcome = HTTPException(400, error[1])
             /\ reply'.op = "callback"
             /\ sent' = <<>>
             /\ cb' = cb
             /\ CacheUnchanged]_vars

\* a callback has failed with the provider's error while a state entry was
\* waiting in the cache
C7_Witness ==
    /\ reply.op = "callback"
    /\ reply.outcome = HTTPException(400, "access_denied")
    /\ \E pr \in Pairs : Stored(StateKey(pr[2], pr[1])) # None

----------------------------------------------------------------------------
(* C8: expiry *)

\* C8: no state entry is accepted by a callback, and no credentials entry
\* returned by a retrieval, more than 600 seconds after it was written.
C8_NothingConsumedAfterTtl ==
    [][/\ \A error \in Errors, encoded_state \in StateParams :
            (CallbackStart("cb1", error, encoded_state) /\ cb'["cb1"].pc = "gather")
            => Age(cb'["cb1"].skey) <= EXPIRE
       /\ \A pr \in Pairs :
            LET key == CredentialsKey(pr[2], pr[1])
            IN (/\ RetrieveStart("rt1", pr[1], pr[2])
                /\ reply' # Reply("retrieve", key, NoCredentialsError, None))
               => Age(key) <= EXPIRE]_vars

----------------------------------------------------------------------------
(* C9: malformed state *)

\* C9: a callback whose `state` is missing or is no serialized
\* AuthorizationState fails with an error of its own, which is not the
\* StateMismatchError of a failed validation, and does not get as far as
\* the token request.
C9_MalformedStateError ==
    [][\A error \in Errors, encoded_state \in MalformedParams :
          (CallbackStart("cb1", error, encoded_state) /\ NoError(error))
          => /\ reply'.op = "callback"
             /\ reply'.outcome # StateMismatchError
             /\ reply'.outcome # OK
             /\ sent' = <<>>
             /\ CacheUnchanged]_vars

----------------------------------------------------------------------------
(* C10: credentials without a token *)

\* C10: get_items_hubspot given credentials (a JSON object) whose
\* access_token is absent or empty fails with MissingTokenError and issues
\* none of the three GET requests.
C10_MissingToken ==
    [][\A credentials \in CredentialTexts :
          (/\ FetchStart(credentials)
           /\ credentials.t = "json"
           /\ credentials.v.k = "obj"
           /\ \/ \A m \in credentials.v.f : m[1] # "access_token"
              \/ <<"access_token", "">> \in credentials.v.f)
          => /\ fetch'.pc = "done"
             /\ fetch'.outcome = MissingTokenError
             /\ fetch'.ret = None
             /\ fetch'.requests = <<>>]_vars

\* a call with an empty access_token has failed with MissingTokenError
C10_Witness ==
    /\ fetch.pc = "done"
    /\ fetch.outcome = MissingTokenError
    /\ fetch.access_token = Some("")
    /\ fetch.requests = <<>>

----------------------------------------------------------------------------
(* Vocabulary of the get_items_hubspot properties *)

EndpointNames == {"contacts", "companies", "deals"}

\* the type of the items an endpoint contributes
TypeOf(endpoint) ==
    IF endpoint = "contacts" THEN "Contact"
    ELSE IF endpoint = "companies" THEN "Company"
    ELSE "Deal"

AllRequests == [i \in 1..3 |-> EndpointUrl(Endpoints[i])]

\* the items of one type in a sequence of items
ItemsOfType(items, type) == {i \in 1..Len(items) : items[i].type = type}

Returned == fetch.pc = "done" /\ fetch.outcome = OK

----------------------------------------------------------------------------
(* C11: an endpoint that answers with a status other than 200 *)

\* C11: when an endpoint answers with a non-200 status, get_items_hubspot
\* does not fail, takes no item from that answer and goes on to the next
\* endpoint; a call that returns has requested all three endpoints and
\* returns the item list, which holds no item of an endpoint that did not
\* answer 200.
C11_Non200Skipped ==
    /\ [][\A endpoint \in EndpointNames :
            \A response \in EndpointResponses(endpoint) :
              (/\ FetchEndpoint(endpoint, response)
               /\ response.raises = ""
               /\ response.status_code # 200)
              => /\ fetch'.items = fetch.items
                 /\ fetch'.pc = NextPc(endpoint)
                 /\ fetch'.outcome = (IF endpoint = "deals" THEN OK ELSE Running)
                 /\ fetch'.requests = Append(fetch.requests, EndpointUrl(endpoint))]_vars
    /\ [](Returned =>
            /\ fetch.requests = AllRequests
            /\ fetch.ret = Some(fetch.items)
            /\ \A i \in 1..3 :
                 fetch.statuses[i] # 200 => ItemsOfType(fetch.items, TypeOf(Endpoints[i])) = {})

\* the companies endpoint answered 500 and the call returned the contacts
\* and the deals
C11_Witness ==
    /\ Returned
    /\ fetch.statuses = <<200, 500, 200>>
    /\ ItemsOfType(fetch.ret[1], "Contact") # {}
    /\ ItemsOfType(fetch.ret[1], "Deal") # {}

----------------------------------------------------------------------------
(* C12: the item of a contact *)

\* the members of a record's `properties` object (none without the object)
PropertiesOf(record) ==
    UNION {m[2].f : m \in {x \in record.f : x[1] = "properties" /\ x[2].k = "obj"}}

\* a part of a name: the string under `name`, '' when there is none
NamePart(record, name) ==
    IF \E m \in PropertiesOf(record) : m[1] = name
    THEN (CHOOSE m \in PropertiesOf(record) : m[1] = name)[2].s
    ELSE ""

\* contact records whose `properties` is an object or missing and whose name
\* parts are strings or missing
PlainContacts ==
    {record \in Records("contacts") :
        /\ \A m \in record.f : m[1] = "properties" => m[2].k = "obj"
        /\ \A m \in PropertiesOf(record) : m[2].k = "str"}

\* a 200 answer without records
IsEmptyAnswer(response) ==
    /\ response.raises = ""
    /\ response.status_code = 200
    /\ response.body \in {json_dumps(JObj({})), json_dumps(JObj({<<"results", <<>>>>}))}

\* C12: a contacts response with the one record {id, properties: {firstname,
\* lastname}, createdAt, updatedAt} yields exactly one item, with the
\* record's id, type 'Contact', name = firstname + ' ' + lastname (a missing
\* part counting as ''), creation_time = createdAt, last_modified_time =
\* updatedAt and a url ending in /contacts/{id}; empty companies and deals
\* responses add nothing and the call returns that list.
C12_ContactItem ==
    /\ [][\A record \in PlainContacts :
            FetchEndpoint("contacts",
                          [raises |-> "", status_code |-> 200,
                           body |-> json_dumps(JObj({<<"results", <<record>>>>}))])
            => fetch'.items =
                 << [id |-> JGet(record, "id"),
                     type |-> "Contact",
                     name |-> JStr(NamePart(record, "firstname") \o " "
                                      \o NamePart(record, "lastname")),
                     creation_time |-> JGet(record, "createdAt"),
                     last_modified_time |-> JGet(record, "updatedAt"),
                     url |-> "https://app.hubspot.com/contacts/" \o JGet(record, "id")[1]] >>]_vars
    /\ [][\A endpoint \in {"companies", "deals"} :
            \A response \in EndpointResponses(endpoint) :
              (FetchEndpoint(endpoint, response) /\ IsEmptyAnswer(response))
              => /\ fetch'.items = fetch.items
                 /\ endpoint = "deals" => fetch'.outcome = OK /\ fetch'.ret = Some(fetch.items)]_vars

\* the call returned the one item of a contact without a lastname
C12_Witness ==
    /\ Returned
    /\ fetch.statuses = <<200, 200, 200>>
    /\ Len(fetch.ret[1]) = 1
    /\ fetch.ret[1][1].type = "Contact"
    /\ fetch.ret[1][1].name = JStr("Ada ")
    /\ fetch.ret[1][1].id = Some("2")

----------------------------------------------------------------------------
(* C13: companies without a name *)

\* a record without properties.name: no `properties` at all, or a
\* `properties` object without the member
LacksName(record) ==
    /\ \A m \in record.f : m[1] = "properties" => m[2].k = "obj"
    /\ \A m \in PropertiesOf(record) : m[1] # "name"

\* C13: every company record that lacks properties.name, a record without
\* properties included, becomes an item of type 'Company' named
\* 'Unnamed Company'.
C13_UnnamedCompany ==
    [][\A results \in RecordLists("companies") :
          FetchEndpoint("companies",
                        [raises |-> "", status_code |-> 200,
                         body |-> json_dumps(JObj({<<"results", results>>}))])
          => /\ Len(fetch'.items) = Len(fetch.items) + Len(results)
             /\ \A i \in 1..Len(results) :
                  LacksName(results[i])
                  => /\ fetch'.items[Len(fetch.items) + i].type = "Company"
                     /\ fetch'.items[Len(fetch.items) + i].name = JStr("Unnamed Company")
                     /\ fetch'.items[Len(fetch.items) + i].id = JGet(results[i], "id")]_vars

\* the call returned the item of the company record that has no properties
C13_Witness ==
    /\ Returned
    /\ \E i \in 1..Len(fetch.ret[1]) :
         /\ fetch.ret[1][i].id = Some("7")
         /\ fetch.ret[1][i].type = "Company"
         /\ fetch.ret[1][i].name = JStr("Unnamed Company")

----------------------------------------------------------------------------
(* C14: a request that fails *)

\* what a failed request raises: the exception of requests.get, or the
\* decoding error of a 200 answer whose body is no JSON
CauseOf(response) ==
    IF response.raises # "" THEN response.raises
    ELSE IF response.status_code = 200 /\ response.body = NotJson THEN "JSONDecodeError"
    ELSE ""

\* C14: when the GET of an endpoint or the decoding of its body raises,
\* get_items_hubspot ends with FetchError wrapping the cause, returns none
\* of the items collected so far and sends no request to the endpoints
\* that come later.
C14_RequestFailure ==
    /\ [][\A endpoint \in EndpointNames :
            \A response \in EndpointResponses(endpoint) :
              (FetchEndpoint(endpoint, response) /\ CauseOf(response) # "")
              => /\ fetch'.pc = "done"
                 /\ fetch'.outcome =
                      HTTPException(500, "Error fetching HubSpot data: " \o CauseOf(response))
                 /\ fetch'.ret = None
                 /\ fetch'.requests = Append(fetch.requests, EndpointUrl(endpoint))]_vars
    /\ [][fetch.pc = "done" => fetch'.requests = <<>>]_vars
    /\ [](fetch.pc = "done" /\ fetch.outcome.status = 500
            => /\ fetch.ret = None
               /\ fetch.requests = SubSeq(AllRequests, 1, Len(fetch.statuses)))

\* the companies request raised after the contacts had been collected
C14_Witness ==
    /\ fetch.pc = "done"
    /\ fetch.outcome = FetchError("ConnectionError")
    /\ fetch.statuses = <<200, 0>>
    /\ fetch.items # <<>>
    /\ fetch.ret = None
    /\ Len(fetch.requests) = 2

----------------------------------------------------------------------------
(* C15: the order of the returned items *)

\* the place of a type in the order contacts, companies, deals
Rank(type) == IF type = "Contact" THEN 1 ELSE IF type = "Company" THEN 2 ELSE 3

\* C15: the returned sequence lists the contact items, then the company
\* items, then the deal items; an endpoint that answers 200 adds one item per
\* record, in the order of the records, after the items collected before,
\* and an endpoint that answers another status adds none, so that the
\* length is the sum of the record counts of the endpoints that answered 200.
C15_ItemOrder ==
    /\ [](Returned =>
            \A i \in 1..Len(fetch.ret[1]), j \in 1..Len(fetch.ret[1]) :
                i < j => Rank(fetch.ret[1][i].type) <= Rank(fetch.ret[1][j].type))
    /\ [][\A endpoint \in EndpointNames, st \in {200, 500} :
            \A results \in RecordLists(endpoint) :
              (/\ FetchEndpoint(endpoint,
                                [raises |-> "", status_code |-> st,
                                 body |-> json_dumps(JObj({<<"results", results>>}))])
               /\ fetch'.outcome.status # 500)
              => IF st = 200
                 THEN /\ Len(fetch'.items) = Len(fetch.items) + Len(results)
                      /\ SubSeq(fetch'.items, 1, Len(fetch.items)) = fetch.items
                      /\ \A i \in 1..Len(results) :
                           /\ fetch'.items[Len(fetch.items) + i].id = JGet(results[i], "id")
                           /\ fetch'.items[Len(fetch.items) + i].type = TypeOf(endpoint)
                 ELSE fetch'.items = fetch.items]_vars

\* the call returned two contacts in the order of their records, then a
\* company, then a deal
C15_Witness ==
    /\ Returned
    /\ Len(fetch.ret[1]) = 4
    /\ [i \in 1..4 |-> fetch.ret[1][i].id] = <<Some("2"), Some("1"), Some("5"), Some("9")>>
    /\ [i \in 1..4 |-> fetch.ret[1][i].type] = <<"Contact", "Contact", "Company", "Deal">>

----------------------------------------------------------------------------
(* C16: what authorize_hubspot changes *)

\* the cache without the entry of one key
Without(c, key) ==
    [storage |-> DictDel(c.storage, key), expiry |-> DictDel(c.expiry, key),
     db |-> DictDel(c.db, key), ttl |-> DictDel(c.ttl, key)]

\* the URL an authorize step hands on: returned at once in memory, kept for
\* the return after the EXPIRE under Redis
BuiltUrl == IF USE_REDIS THEN au'.ret ELSE reply'.ret

\* C16 as stated: authorize(user_id, org_id) leaves every credentials entry
\* and the state entry of every other (user_id, org_id) pair unchanged, and
\* the state in the returned URL is the value stored in the cache.
C16_OtherPairsUntouched ==
    [][\A pr \in Pairs :
          Authorize(pr[1], pr[2]) =>
            /\ \A q \in Pairs \ {pr} :
                 StoredIn(Cache', "hubspot_state:" \o q[2] \o ":" \o q[1])
                   = Stored("hubspot_state:" \o q[2] \o ":" \o q[1])
            /\ \A q \in Pairs :
                 StoredIn(Cache', "hubspot_credentials:" \o q[2] \o ":" \o q[1])
                   = Stored("hubspot_credentials:" \o q[2] \o ":" \o q[1])
            /\ Some(BuiltUrl[1].state)
                 = StoredIn(Cache', "hubspot_state:" \o pr[2] \o ":" \o pr[1])]_vars

\* What authorize_hubspot does leave alone: every entry under a key other
\* than hubspot_state:{org_id}:{user_id}, value and expiry (a pair whose ids
\* hold ':' can render to the same key, and its entry is replaced); the
\* state in the returned URL is the value stored under that key.
C16_AuthorizeFrame ==
    [][/\ \A pr \in Pairs :
            Authorize(pr[1], pr[2]) =>
              LET key == "hubspot_state:" \o pr[2] \o ":" \o pr[1]
              IN /\ Without(Cache', key) = Without(Cache, key)
                 /\ Some(BuiltUrl[1].state) = StoredIn(Cache', key)
       /\ AuthorizeExpire =>
              LET key == "hubspot_state:" \o au.org_id \o ":" \o au.user_id
              IN /\ Without(Cache', key) = Without(Cache, key)
                 /\ StoredIn(Cache', key) = Stored(key)
                 /\ reply'.ret = au.ret]_vars

\* an authorize has returned while the state entry of a pair with another
\* key is in the cache
C16_OtherKeyHeld ==
    /\ reply.op = "authorize"
    /\ reply.outcome = OK
    /\ Stored("hubspot_state:u:u") # None
    /\ Stored("hubspot_state:u:u:u") # None

----------------------------------------------------------------------------
(* C17: the token response is stored whatever its status *)

\* C17 as stated: after a callback whose token exchange returned a non-200
\* response, a credentials entry exists.
C17_Non200AlwaysStored ==
    [][\A response \in TokenResponses :
          (CallbackPostReturns("cb1", response) /\ response.status # 200)
            => StoredIn(Cache', cb["cb1"].ckey) # None]_vars

\* C17 amended: oauth2callback_hubspot never looks at the status of the
\* token response. When the body is JSON it is stored as the credentials
\* entry, whatever the status; when the body is not JSON the callback fails
\* with the decoding error and writes nothing. A retrieveCredentials that
\* finds a stored non-200 payload, a non-empty object less than 600 seconds
\* old, returns it like valid credentials.
C17_JsonBodyStoredAnyStatus ==
    [][/\ \A response \in TokenResponses :
            LET body == json_loads(Some(response.body))
                key == cb["cb1"].ckey
            IN CallbackPostReturns("cb1", response) =>
                 IF body.ok
                 THEN /\ StoredIn(Cache', key) = Some(json_dumps(body.v))
                      /\ written_at'[key] = now
                 ELSE /\ CacheUnchanged
                      /\ reply' = Reply("callback", cb["cb1"].skey, Unhandled(body.exc), None)
       /\ \A pr \in Pairs, response \in TokenResponses :
            LET body == json_loads(Some(response.body))
                key == CredentialsKey(pr[2], pr[1])
            IN (/\ RetrieveStart("rt1", pr[1], pr[2])
                /\ response.status # 200
                /\ body.ok
                /\ JTruthy(body.v)
                /\ Stored(key) = Some(json_dumps(body.v))
                /\ Age(key) < EXPIRE)
               => Retrieved("rt1", key, body.v)]_vars

\* a retrieval has returned the error payload of a 400 token response
C17_Witness ==
    /\ reply.op = "retrieve"
    /\ reply.outcome = OK
    /\ reply.ret = Some(JObj({<<"status", "BAD_AUTH_CODE">>}))

----------------------------------------------------------------------------
(* C18: the in-memory store as a TTL cache *)

\* what a TTL cache returns for a key: the latest value set, unless the key
\* was deleted since or the expiry given with that set has passed
TtlCacheGet(key) ==
    IF /\ key \in DOMAIN last_set
       /\ \/ last_set[key].deadline = None
          \/ now <= last_set[key].deadline[1]
    THEN Some(last_set[key].value)
    ELSE None

\* C18: for every sequence of add_key_value_redis (with or without expire),
\* get_value_redis, delete_key_redis and clock advances, the in-memory
\* get_value_redis returns what a TTL cache returns.
C18_MemoryIsTtlCache ==
    [][\A key \in StoreKeys : StoreGet(key) => reply'.ret = TtlCacheGet(key)]_vars

----------------------------------------------------------------------------
(* C19: who writes a credentials entry *)

\* a step that puts a value under a key, or replaces the one there
Written(key) == StoredIn(Cache', key) # None /\ StoredIn(Cache', key) # Stored(key)

\* C19: a credentials entry comes to exist under
\* credentials:{org_id}:{user_id} only through a handleCallback that
\* presented a state of that same (org_id, user_id), passed validation and
\* completed its token exchange; no other operation writes one.
C19_WrittenForSamePair ==
    [][\A pr \in Pairs :
          Written("hubspot_credentials:" \o pr[2] \o ":" \o pr[1]) =>
            /\ \E response \in TokenResponses : CallbackPostReturns("cb1", response)
            /\ \E i \in NonceRange : cb["cb1"].state = Some(StateText(i, pr))]_vars

\* What does hold: a credentials entry is written only by the token
\* exchange of a callback that passed validation, under the key its state
\* renders to (which the ids of another pair can render to as well).
C19_WrittenByCallbackOnly ==
    [][\A pr \in Pairs :
          Written("hubspot_credentials:" \o pr[2] \o ":" \o pr[1]) =>
            /\ \E response \in TokenResponses : CallbackPostReturns("cb1", response)
            /\ cb["cb1"].pc = "gather"
            /\ cb["cb1"].ckey = "hubspot_credentials:" \o pr[2] \o ":" \o pr[1]]_vars

----------------------------------------------------------------------------
(* C20: a second authorize for the same pair *)

\* the states authorize can produce when it is called MaxAuthorize times
RepeatedNonces == 0..MaxAuthorize

\* a callback holds the state that replaced an earlier one of the same pair
HoldsSecondState(p) ==
    \E pr \in Pairs, i \in RepeatedNonces, j \in RepeatedNonces :
        /\ i < j
        /\ StateText(i, pr) \in replaced_states
        /\ cb[p].state = Some(StateText(j, pr))

\* C20 as stated: a second authorize for a pair replaces the first state; a
\* callback presenting the first state fails with StateMismatchError and
\* leaves the second entry in place; a callback presenting the second state
\* succeeds.
C20_SecondStateSucceeds ==
    [][/\ \A error \in Errors, encoded_state \in RepeatedStateParams :
            (/\ NoError(error)
             /\ encoded_state # None
             /\ encoded_state[1] \in replaced_states
             /\ CallbackStart("cb1", error, encoded_state))
            => reply'.outcome = StateMismatchError /\ CacheUnchanged
       /\ (HoldsSecondState("cb1") /\ cb["cb1"].pc = "gather" /\ cb'["cb1"].pc # "gather")
            => \/ reply'.outcome = OK
               \/ cb'["cb1"].pc = "expire"]_vars

\* C20 amended: a second authorize for a pair replaces the first state under
\* the pair's key; a callback presenting a replaced state, with no error
\* parameter, fails with StateMismatchError, issues no token request and
\* leaves the cache as it is, the second entry included; a callback
\* presenting the state that is in the cache, less than 600 seconds old,
\* passes validation and issues the token request, and when the token
\* endpoint answers with a JSON body that body is stored as credentials and
\* the callback succeeds.
C20_LatestStateWins ==
    [][/\ \A pr \in Pairs :
            LET skey == "hubspot_state:" \o pr[2] \o ":" \o pr[1]
            IN Authorize(pr[1], pr[2]) =>
                 /\ StoredIn(Cache', skey) = Some(StateText(next_nonce, pr))
                 /\ Stored(skey) # None =>
                      /\ Stored(skey)[1] \in replaced_states'
                      /\ StoredIn(Cache', skey) # Stored(skey)
       /\ \A error \in Errors, encoded_state \in RepeatedStateParams :
            (/\ NoError(error)
             /\ encoded_state # None
             /\ encoded_state[1] \in replaced_states
             /\ CallbackStart("cb1", error, encoded_state))
            => /\ reply'.outcome = StateMismatchError
               /\ reply'.op = "callback"
               /\ sent' = <<>>
               /\ cb' = cb
               /\ CacheUnchanged
       /\ \A error \in Errors, pr \in Pairs, j \in RepeatedNonces :
            LET skey == "hubspot_state:" \o pr[2] \o ":" \o pr[1]
            IN (/\ NoError(error)
                /\ Stored(skey) = Some(StateText(j, pr))
                /\ Age(skey) < EXPIRE
                /\ CallbackStart("cb1", error, Some(StateText(j, pr))))
               => /\ cb'["cb1"].pc = "gather"
                  /\ cb'["cb1"].state = Some(StateText(j, pr))
                  /\ sent' # <<>>
       /\ \A response \in TokenResponses :
            (/\ HoldsSecondState("cb1")
             /\ response.body.t = "json"
             /\ CallbackPostReturns("cb1", response))
            => /\ StoredIn(Cache', cb["cb1"].ckey) = Some(response.body)
               /\ reply'.outcome = OK \/ cb'["cb1"].pc = "expire"]_vars

\* authorize ran twice for a pair, and a callback that presented the first
\* state has failed with StateMismatchError while the second is in the cache
C20_Witness ==
    /\ reply.op = "callback"
    /\ reply.replaced
    /\ reply.outcome = StateMismatchError
    /\ \E pr \in Pairs, i \in RepeatedNonces, j \in RepeatedNonces :
          /\ i < j
          /\ StateText(i, pr) \in replaced_states
          /\ reply.key = "hubspot_state:" \o pr[2] \o ":" \o pr[1]
          /\ Stored(reply.key) = Some(StateText(j, pr))

====
